---- MODULE Spec2Model ----
(***************************************************************************)
(* Model of scripts/build-types.ts: the path-unflattening tree builder     *)
(* (unflattenAndResolveTypes), the type resolver (resolveType and          *)
(* getBaseType) and the declaration emitter (stringifyTypes and            *)
(* stringifyObject), driven by the three generateObs*Types entry points.   *)
(*                                                                         *)
(* A JavaScript string is a sequence of one-character strings, so that     *)
(* split, startsWith, lastIndexOf, substring, join and === on strings are  *)
(* computed and not assumed.                                               *)
(*                                                                         *)
(* The type tree is made of JavaScript objects, and the code uses them as  *)
(* maps keyed by field names: `name in properties`, `properties[name]`     *)
(* and `properties[name] = node`.  An object is therefore modelled as its  *)
(* own properties in enumeration order (array-index keys first, in         *)
(* ascending order, then the other keys in insertion order) and its        *)
(* prototype, and the three operations follow the prototype chain as the   *)
(* language does: `in` finds inherited keys and the members of             *)
(* Object.prototype, a read returns the inherited value, and `__proto__`   *)
(* reads and sets the prototype instead of an own property.                *)
(*                                                                         *)
(* The fields are as their interfaces declare them: valueName, valueType   *)
(* and valueDescription are strings (possibly empty), valueOptional is a   *)
(* boolean when the key is present, valueRestrictions and                  *)
(* valueOptionalBehavior are strings or null (the empty sequence).         *)
(***************************************************************************)
EXTENDS Integers, Sequences, FiniteSets, TLC

VARIABLES kind, inputItems, items, idx, root, pc, err, typeText, output

vars == <<kind, inputItems, items, idx, root, pc, err, typeText, output>>

----------------------------------------------------------------------------
(* Bounds of the explored inputs *)

\* longest field list of the general family
MaxItems == 3
\* most segments of a path in a one-descriptor list
MaxSegs == 4
\* most segments of a path in a two-descriptor list
MaxPairSegs == 3
\* most `Array<` prefixes and most `>` suffixes of a declared type
MaxNest == 2

----------------------------------------------------------------------------
(* String literals of the source, as character sequences *)

DOT == "."
STAR == <<"*">>
NL == "\n"
TAB == "\t"

ARRAY_PREFIX == <<"A", "r", "r", "a", "y", "<">>
S_Boolean == <<"B", "o", "o", "l", "e", "a", "n">>
S_String == <<"S", "t", "r", "i", "n", "g">>
S_Number == <<"N", "u", "m", "b", "e", "r">>
S_Object == <<"O", "b", "j", "e", "c", "t">>
S_Any == <<"A", "n", "y">>
S_boolean == <<"b", "o", "o", "l", "e", "a", "n">>
S_string == <<"s", "t", "r", "i", "n", "g">>
S_number == <<"n", "u", "m", "b", "e", "r">>
S_JsonObject == <<"J", "s", "o", "n", "O", "b", "j", "e", "c", "t">>
S_JsonObjectArray == S_JsonObject \o <<"[", "]">>
S_JsonValue == <<"J", "s", "o", "n", "V", "a", "l", "u", "e">>
S_undefined == <<"u", "n", "d", "e", "f", "i", "n", "e", "d">>
S_never == <<"n", "e", "v", "e", "r">>
S_restrictions == <<NL, "@", "r", "e", "s", "t", "r", "i", "c", "t", "i", "o", "n", "s", " ">>
S_defaultValue == <<NL, "@", "d", "e", "f", "a", "u", "l", "t", "V", "a", "l", "u", "e", " ">>
S_docOpen == <<"/", "*", "*">>
S_docLine == <<" ", "*", " ">>
S_docClose == <<" ", "*", "/">>

----------------------------------------------------------------------------
(* String primitives *)

\* String.prototype.startsWith
StartsWith(s, p) == Len(s) >= Len(p) /\ SubSeq(s, 1, Len(p)) = p

\* String.prototype.lastIndexOf for a one-character needle: 0-based, -1 if absent
LastIndexOf(s, c) ==
    LET hits == {i \in 1..Len(s) : s[i] = c}
    IN IF hits = {} THEN -1 ELSE (CHOOSE i \in hits : \A j \in hits : j <= i) - 1

\* String.prototype.substring(start, end): negative arguments count as 0,
\* arguments beyond the length as the length, and the two are swapped when
\* start > end
Substring(s, start, end) ==
    LET clamp(n) == IF n < 0 THEN 0 ELSE IF n > Len(s) THEN Len(s) ELSE n
        a == clamp(start)
        b == clamp(end)
        lo == IF a <= b THEN a ELSE b
        hi == IF a <= b THEN b ELSE a
    IN SubSeq(s, lo + 1, hi)

\* String.prototype.split for a one-character separator: always at least one part
RECURSIVE Split(_, _)
Split(s, c) ==
    LET hits == {i \in 1..Len(s) : s[i] = c}
    IN IF hits = {} THEN <<s>>
       ELSE LET i == CHOOSE k \in hits : \A j \in hits : k <= j
            IN <<SubSeq(s, 1, i - 1)>> \o Split(SubSeq(s, i + 1, Len(s)), c)

\* Array.prototype.join for a one-character separator
RECURSIVE Join(_, _)
Join(parts, c) ==
    IF Len(parts) = 0 THEN <<>>
    ELSE IF Len(parts) = 1 THEN parts[1]
    ELSE parts[1] \o <<c>> \o Join(Tail(parts), c)

\* (s.match(/\./g)?.length ?? 0): the number of dots of s
DotCount(s) == Cardinality({i \in 1..Len(s) : s[i] = DOT})

----------------------------------------------------------------------------
(* JavaScript values and objects *)

\* the values a property can hold: a string, a boolean, undefined, an
\* object, or a builtin (Object.prototype and the functions it holds)
JsString(s) == [js |-> "string", str |-> s]
JsBoolean(b) == [js |-> "boolean", bool |-> b]
JsUndefined == [js |-> "undefined"]
JsBuiltin == [js |-> "builtin"]

\* an ordinary object: own lists its own enumerable properties as
\* <<key, val>> entries in the order Object.keys and Object.entries report
\* them; proto is empty when the prototype is Object.prototype and holds
\* the prototype otherwise
JsObject(own, proto) == [js |-> "object", own |-> own, proto |-> proto]

Entry(k, v) == [key |-> k, val |-> v]

\* the object literal {}
EmptyObject == JsObject(<<>>, <<>>)

\* the property keys of the type nodes
K_type == <<"t", "y", "p", "e">>
K_properties == <<"p", "r", "o", "p", "e", "r", "t", "i", "e", "s">>
K_items == <<"i", "t", "e", "m", "s">>
K_jsdoc == <<"j", "s", "d", "o", "c">>
K_optional == <<"o", "p", "t", "i", "o", "n", "a", "l">>

\* the accessor of Object.prototype that reads and sets the prototype
K_proto == <<"_", "_", "p", "r", "o", "t", "o", "_", "_">>

K_constructor == <<"c", "o", "n", "s", "t", "r", "u", "c", "t", "o", "r">>

\* the names every ordinary object inherits from Object.prototype
ObjectPrototypeMembers ==
    {K_proto, K_constructor,
     <<"_", "_", "d", "e", "f", "i", "n", "e", "G", "e", "t", "t", "e", "r", "_", "_">>,
     <<"_", "_", "d", "e", "f", "i", "n", "e", "S", "e", "t", "t", "e", "r", "_", "_">>,
     <<"_", "_", "l", "o", "o", "k", "u", "p", "G", "e", "t", "t", "e", "r", "_", "_">>,
     <<"_", "_", "l", "o", "o", "k", "u", "p", "S", "e", "t", "t", "e", "r", "_", "_">>,
     <<"h", "a", "s", "O", "w", "n", "P", "r", "o", "p", "e", "r", "t", "y">>,
     <<"i", "s", "P", "r", "o", "t", "o", "t", "y", "p", "e", "O", "f">>,
     <<"p", "r", "o", "p", "e", "r", "t", "y", "I", "s", "E", "n", "u", "m", "e", "r", "a", "b", "l", "e">>,
     <<"t", "o", "S", "t", "r", "i", "n", "g">>,
     <<"v", "a", "l", "u", "e", "O", "f">>,
     <<"t", "o", "L", "o", "c", "a", "l", "e", "S", "t", "r", "i", "n", "g">>}

Digits == {"0", "1", "2", "3", "4", "5", "6", "7", "8", "9"}
MaxArrayIndex == <<"4", "2", "9", "4", "9", "6", "7", "2", "9", "4">>

\* a < b for canonical decimal numerals
NumLess(a, b) ==
    \/ Len(a) < Len(b)
    \/ /\ Len(a) = Len(b)
       /\ \E i \in 1..Len(a) :
            /\ \A j \in 1..(i - 1) : a[j] = b[j]
            /\ \E x, y \in 0..9 : /\ x < y
                                  /\ a[i] = ToString(x)
                                  /\ b[i] = ToString(y)

\* a property key that is a canonical array index: JavaScript enumerates
\* such keys first, in ascending numeric order, and the other string keys
\* after them in insertion order
IsArrayIndex(k) ==
    /\ Len(k) >= 1
    /\ \A i \in 1..Len(k) : k[i] \in Digits
    /\ (Len(k) = 1 \/ k[1] # "0")
    /\ Len(k) <= Len(MaxArrayIndex)
    /\ ~NumLess(MaxArrayIndex, k)

\* k is an own property of the object with the entries own
HasOwn(own, k) == \E i \in 1..Len(own) : own[i].key = k

\* the value of the own property k
OwnGet(own, k) == own[CHOOSE i \in 1..Len(own) : own[i].key = k].val

\* where a new own key is enumerated
InsertPos(own, k) ==
    IF IsArrayIndex(k)
    THEN 1 + Cardinality({i \in 1..Len(own) :
                             IsArrayIndex(own[i].key) /\ NumLess(own[i].key, k)})
    ELSE Len(own) + 1

\* the entries after the own property k is defined or redefined: an
\* existing key keeps its place in the enumeration
OwnSet(own, k, v) ==
    IF HasOwn(own, k)
    THEN [i \in 1..Len(own) |-> IF own[i].key = k THEN Entry(k, v) ELSE own[i]]
    ELSE LET p == InsertPos(own, k)
         IN SubSeq(own, 1, p - 1) \o <<Entry(k, v)>> \o SubSeq(own, p, Len(own))

\* `k in o`: an own property, a property of an object of the prototype
\* chain, or a member of Object.prototype, where every chain ends
RECURSIVE HasProp(_, _)
HasProp(o, k) ==
    \/ HasOwn(o.own, k)
    \/ IF o.proto # <<>> THEN HasProp(o.proto[1], k) ELSE k \in ObjectPrototypeMembers

\* o[k] for a data property: the own value, or else the value the chain gives
RECURSIVE Inherited(_, _)
Inherited(o, k) ==
    IF HasOwn(o.own, k) THEN OwnGet(o.own, k)
    ELSE IF o.proto # <<>> THEN Inherited(o.proto[1], k)
    ELSE IF k \in ObjectPrototypeMembers THEN JsBuiltin
    ELSE JsUndefined

\* o[k]: no object here has an own `__proto__`, so that key reaches the
\* accessor of Object.prototype, which returns the prototype of o
PropGet(o, k) ==
    IF k = K_proto
    THEN (IF o.proto # <<>> THEN o.proto[1] ELSE JsBuiltin)
    ELSE Inherited(o, k)

\* o[k] = v for an object v: the key `__proto__` reaches the accessor of
\* Object.prototype, which makes v the prototype of o and stores no
\* property; any other key defines or redefines an own property of o
PropSet(o, k, v) ==
    IF k = K_proto THEN [o EXCEPT !.proto = <<v>>]
    ELSE [o EXCEPT !.own = OwnSet(o.own, k, v)]

\* v.k for any value v: the strings, booleans and builtins met here have
\* none of the properties read from them (type, items, properties)
Member(v, k) == IF v.js = "object" THEN PropGet(v, k) ELSE JsUndefined

\* the truthiness of a value
Truthy(v) ==
    CASE v.js = "boolean" -> v.bool
      [] v.js = "string" -> v.str # <<>>
      [] v.js = "undefined" -> FALSE
      [] OTHER -> TRUE

----------------------------------------------------------------------------
(* Type tree nodes (AnyType) *)

S_object == <<"o", "b", "j", "e", "c", "t">>
S_array == <<"a", "r", "r", "a", "y">>
S_jsonvalue == <<"j", "s", "o", "n", "v", "a", "l", "u", "e">>

\* {type: t}
PrimitiveType(t) == JsObject(<<Entry(K_type, JsString(t))>>, <<>>)

\* {type: 'jsonvalue', properties: {}}
JsonValueType ==
    JsObject(<<Entry(K_type, JsString(S_jsonvalue)), Entry(K_properties, EmptyObject)>>, <<>>)

\* {type: 'object', properties: {}}
ObjectType ==
    JsObject(<<Entry(K_type, JsString(S_object)), Entry(K_properties, EmptyObject)>>, <<>>)

\* {type: 'array', items: element}
ArrayType(element) ==
    JsObject(<<Entry(K_type, JsString(S_array)), Entry(K_items, element)>>, <<>>)

\* v.type === t
IsType(v, t) == Member(v, K_type) = JsString(t)

----------------------------------------------------------------------------
(* Type Resolver *)

Returned(n) == [ok |-> TRUE, node |-> n, error |-> "none"]
Thrown(e) == [ok |-> FALSE, node |-> ObjectType, error |-> e]

\* getBaseType.  The text between `Array<` and the last `>` is shorter than
\* inType, except for the text `Array<` itself: lastIndexOf gives -1,
\* substring(6, -1) is substring(0, 6), and the function calls itself with
\* the argument it was given.  That recursion never returns; the engine
\* ends it with a RangeError when its stack is exhausted.  (A well-formed
\* type would need thousands of nested `Array<` to exhaust the stack; the
\* texts modelled are far shorter.)
RECURSIVE getBaseType(_)
getBaseType(inType) ==
    IF StartsWith(inType, ARRAY_PREFIX)
    THEN LET subType == Substring(inType, Len(ARRAY_PREFIX), LastIndexOf(inType, ">"))
             sub == IF subType = inType THEN Thrown("RangeError") ELSE getBaseType(subType)
         IN IF sub.ok THEN Returned(ArrayType(sub.node)) ELSE sub
    ELSE IF inType = S_Boolean THEN Returned(PrimitiveType(S_boolean))
    ELSE IF inType = S_String THEN Returned(PrimitiveType(S_string))
    ELSE IF inType = S_Number THEN Returned(PrimitiveType(S_number))
    ELSE IF inType = S_Object THEN Returned(ObjectType)
    ELSE IF inType = S_Any THEN Returned(JsonValueType)
    ELSE Thrown("UnknownType")

\* 'valueOptional' in val
isObsRequestField(val) == val.hasValueOptional

\* the jsdoc text resolveType leaves on the node
ResolvedJsdoc(field) ==
    IF isObsRequestField(field)
    THEN field.valueDescription
            \o (IF field.valueRestrictions # <<>>
                THEN S_restrictions \o field.valueRestrictions ELSE <<>>)
            \o (IF field.valueOptionalBehavior # <<>>
                THEN S_defaultValue \o field.valueOptionalBehavior ELSE <<>>)
    ELSE field.valueDescription

\* type.jsdoc = ...; and, for a descriptor with the key valueOptional,
\* type.optional = valueOptional
resolveType(field) ==
    LET type == getBaseType(field.valueType)
        documented == PropSet(type.node, K_jsdoc, JsString(ResolvedJsdoc(field)))
    IN IF ~type.ok THEN type
       ELSE IF isObsRequestField(field)
       THEN Returned(PropSet(documented, K_optional, JsBoolean(field.valueOptional)))
       ELSE Returned(documented)

----------------------------------------------------------------------------
(* Path Tree Builder *)

\* a build that leaves the descriptors in input order
SortByDepth_unsorted(list) == list

\* items.sort((a, b) => dots(a) - dots(b)): the sort is stable, so
\* descriptors of equal depth keep their input order
RECURSIVE SortByDepth(_)
SortByDepth(list) ==
    IF Len(list) = 0 THEN <<>>
    ELSE LET rest == SortByDepth(SubSeq(list, 1, Len(list) - 1))
             x == list[Len(list)]
             before == Cardinality({i \in 1..Len(rest) :
                          DotCount(rest[i].valueName) - DotCount(x.valueName) <= 0})
         IN SubSeq(rest, 1, before) \o <<x>> \o SubSeq(rest, before + 1, Len(rest))

\* the place of an object of the tree: the steps that lead to it from the
\* root, each through an own property or through the prototype link
StepOwn(k) == [own |-> TRUE, key |-> k]
StepProto == [own |-> FALSE, key |-> <<>>]

RECURSIVE NodeAt(_, _)
NodeAt(o, ref) ==
    IF Len(ref) = 0 THEN o
    ELSE IF Head(ref).own THEN NodeAt(OwnGet(o.own, Head(ref).key), Tail(ref))
    ELSE NodeAt(o.proto[1], Tail(ref))

\* the tree after the object at ref has been mutated into new
RECURSIVE ReplaceAt(_, _, _)
ReplaceAt(o, ref, new) ==
    IF Len(ref) = 0 THEN new
    ELSE IF Head(ref).own
    THEN [o EXCEPT !.own =
            OwnSet(o.own, Head(ref).key,
                   ReplaceAt(OwnGet(o.own, Head(ref).key), Tail(ref), new))]
    ELSE [o EXCEPT !.proto = <<ReplaceAt(o.proto[1], Tail(ref), new)>>]

\* the steps from o to the object that o[k] returns
RECURSIVE Holder(_, _)
Holder(o, k) ==
    IF HasOwn(o.own, k) THEN <<StepOwn(k)>> ELSE <<StepProto>> \o Holder(o.proto[1], k)

Slot(o, k) == IF k = K_proto THEN <<StepProto>> ELSE Holder(o, k)

\* what a variable such as currentNode holds: a reference to an object of
\* the tree, or a value that is no object of the tree
AtRef(ref) == [isRef |-> TRUE, at |-> ref, val |-> JsUndefined]
AtValue(v) == [isRef |-> FALSE, at |-> <<>>, val |-> v]

ValueAt(rt, cur) == IF cur.isRef THEN NodeAt(rt, cur.at) ELSE cur.val

\* cur.k
Read(rt, cur, k) ==
    LET v == Member(ValueAt(rt, cur), k)
    IN IF v.js = "object" THEN AtRef(cur.at \o Slot(NodeAt(rt, cur.at), k))
       ELSE AtValue(v)

Walking(rt, cur) == [ok |-> TRUE, root |-> rt, cur |-> cur, error |-> "none"]
WalkThrown(rt, e) == [ok |-> FALSE, root |-> rt, cur |-> AtRef(<<>>), error |-> e]

\* what the `*` branch leaves in currentNode: currentNode.items; the branch
\* ends without a return, so the rest of the callback runs on this node
\* with nodeName still `*`
StarDescend(rt, cur) == Read(rt, cur, K_items)

\* the container synthesized for a missing property: parts[i + 1] looks one
\* segment ahead in the path without its leaf
NewContainer(parts, i) ==
    IF i + 1 <= Len(parts) /\ parts[i + 1] = STAR
    THEN ArrayType(ObjectType) ELSE ObjectType

\* a walk that synthesizes the container even when the property exists
PropertyMissing_always(props, nodeName) == TRUE

\* !(nodeName in currentNode.properties)
PropertyMissing(props, nodeName) == ~HasProp(props, nodeName)

\* one call of the parts.forEach callback, for parts[i]
VisitPart(st, parts, i) ==
    LET nodeName == parts[i]
        c0 == ValueAt(st.root, st.cur)
        starBad == nodeName = STAR
                     /\ (~IsType(c0, S_array) \/ ~IsType(Member(c0, K_items), S_object))
        cur1 == IF nodeName = STAR THEN StarDescend(st.root, st.cur) ELSE st.cur
        c1 == ValueAt(st.root, cur1)
        propsAt == Read(st.root, cur1, K_properties)
        props == ValueAt(st.root, propsAt)
    IN IF starBad THEN WalkThrown(st.root, "StarKey")
       ELSE IF ~IsType(c1, S_object) THEN WalkThrown(st.root, "CurrentType")
       ELSE IF props.js # "object" THEN WalkThrown(st.root, "TypeError")
       ELSE LET rt2 == IF ~PropertyMissing(props, nodeName) THEN st.root
                       ELSE ReplaceAt(st.root, propsAt.at,
                               PropSet(props, nodeName, NewContainer(parts, i)))
            IN Walking(rt2, Read(rt2, propsAt, nodeName))

\* parts.forEach from index i on; a throw ends the loop
RECURSIVE WalkParts(_, _, _)
WalkParts(st, parts, i) ==
    IF ~st.ok \/ i > Len(parts) THEN st
    ELSE WalkParts(VisitPart(st, parts, i), parts, i + 1)

\* one call of the items.forEach callback: the tree with item added, or the
\* error thrown
BuildItemResult(rt, item) ==
    LET split == Split(item.valueName, DOT)
        lastPart == split[Len(split)]
        parts == SubSeq(split, 1, Len(split) - 1)
        w == WalkParts(Walking(rt, AtRef(<<>>)), parts, 1)
        currentNode == ValueAt(w.root, w.cur)
        propsAt == Read(w.root, w.cur, K_properties)
        props == ValueAt(w.root, propsAt)
        leaf == resolveType(item)
    IN IF ~w.ok THEN w
       ELSE IF lastPart = STAR THEN WalkThrown(w.root, "LastStar")
       ELSE IF ~IsType(currentNode, S_object) THEN WalkThrown(w.root, "NotObject")
       ELSE IF ~leaf.ok THEN WalkThrown(w.root, leaf.error)
       ELSE IF props.js # "object" THEN WalkThrown(w.root, "TypeError")
       ELSE Walking(ReplaceAt(w.root, propsAt.at, PropSet(props, lastPart, leaf.node)),
                    w.cur)

\* items.forEach over the sorted list from index i on
RECURSIVE BuildFrom(_, _, _)
BuildFrom(st, sorted, i) ==
    IF ~st.ok \/ i > Len(sorted) THEN st
    ELSE BuildFrom(BuildItemResult(st.root, sorted[i]), sorted, i + 1)

\* unflattenAndResolveTypes as a function of its argument: .ok and .root
\* when it returns, .error when it throws
unflattenAndResolveTypes(list) ==
    BuildFrom(Walking(ObjectType, AtRef(<<>>)), SortByDepth(list), 1)

----------------------------------------------------------------------------
(* Declaration Emitter *)

RECURSIVE MapDocLines(_)
MapDocLines(lines) ==
    IF Len(lines) = 0 THEN <<>>
    ELSE <<S_docLine \o Head(lines)>> \o MapDocLines(Tail(lines))

formatJsDoc(lines) == Join(<<S_docOpen>> \o MapDocLines(lines) \o <<S_docClose>>, NL)

\* an emitter that widens an empty object to the arbitrary-value spelling
EmptyObjectText_asValue == S_JsonValue

\* the text of an object type without properties
EmptyObjectText == S_JsonObject

\* the separator of a field: typeDef.optional ? '?:' : ':'
Separator(typeDef) ==
    IF Truthy(Member(typeDef, K_optional)) THEN <<"?", ":">> ELSE <<":">>

RECURSIVE stringifyTypes(_)
RECURSIVE PropertyLines(_)

\* what the Object.entries(...).forEach of stringifyObject pushes
PropertyLines(entries) ==
    IF Len(entries) = 0 THEN <<>>
    ELSE LET key == Head(entries).key
             typeDef == Head(entries).val
             jsdoc == Member(typeDef, K_jsdoc)
             doc == IF Truthy(jsdoc) THEN <<formatJsDoc(Split(jsdoc.str, NL))>> ELSE <<>>
         IN doc \o <<key \o Separator(typeDef) \o <<" ">> \o stringifyTypes(typeDef) \o <<";">>>>
                \o PropertyLines(Tail(entries))

\* Object.keys and Object.entries see the own properties only
stringifyObject(inputTypes) ==
    LET properties == Member(inputTypes, K_properties).own
    IN IF Len(properties) = 0 THEN EmptyObjectText
       ELSE Join(<<<<"{">>>> \o PropertyLines(properties) \o <<<<"}">>>>, NL)

\* the default branch returns the type tag itself
stringifyTypes(inputTypes) ==
    IF IsType(inputTypes, S_object) THEN stringifyObject(inputTypes)
    ELSE IF IsType(inputTypes, S_array)
    THEN LET subtype == stringifyTypes(Member(inputTypes, K_items))
         IN IF subtype = S_JsonObject THEN S_JsonObjectArray
            ELSE ARRAY_PREFIX \o subtype \o <<">">>
    ELSE IF IsType(inputTypes, S_jsonvalue) THEN S_JsonValue
    ELSE Member(inputTypes, K_type).str

----------------------------------------------------------------------------
(* Entry points: generateObsEventTypes, generateObsRequestTypes and        *)
(* generateObsResponseTypes, for one entity                                *)

Kinds == {"event", "request", "response"}

\* ev.eventType or req.requestType
EntityName == <<"X">>

\* the length test that bypasses the builder and the emitter
HasNoFields(fields) == Len(fields) = 0

\* the type written for an entity without fields
NoDataMarker(k) == IF k = "request" THEN S_never ELSE S_undefined

\* the line of an entity without fields
NoDataLine(k) ==
    (IF k = "response" THEN <<TAB>> ELSE <<>>)
        \o EntityName \o <<":", " ">> \o NoDataMarker(k) \o <<";">>

\* the line of an entity with fields
EntityLine(text) == EntityName \o <<":", " ">> \o text \o <<";">>

----------------------------------------------------------------------------
(* Inputs: the field lists of one entity *)

\* an OBSRequestField / OBSResponseField / OBSEventField as parsed from
\* protocol.json; hasValueOptional says whether the object has the key
Field(name, type, description, hasOpt, opt, restrictions, behavior) ==
    [valueName |-> name, valueType |-> type, valueDescription |-> description,
     hasValueOptional |-> hasOpt, valueOptional |-> opt,
     valueRestrictions |-> restrictions, valueOptionalBehavior |-> behavior]

PlainField(name, type) == Field(name, type, <<>>, FALSE, FALSE, <<>>, <<>>)

\* sequences over S of length lo..hi
SeqsOf(S, lo, hi) == UNION {[1..n -> S] : n \in lo..hi}

\* the dotted paths of 1..n segments over the segment names S
PathsOver(S, n) == {Join(segs, DOT) : segs \in SeqsOf(S, 1, n)}

\* declared types: MaxNest or fewer `Array<` before a word, MaxNest or
\* fewer `>` after it, and possibly trailing text
TypeWords == {S_Boolean, S_String, S_Number, S_Object, S_Any, <<"I", "n", "t">>, <<>>}

RECURSIVE Repeat(_, _)
Repeat(s, n) == IF n = 0 THEN <<>> ELSE s \o Repeat(s, n - 1)

TypeStrings ==
    {Repeat(ARRAY_PREFIX, k) \o w \o Repeat(<<">">>, m) \o junk :
        k \in 0..MaxNest, m \in 0..MaxNest, w \in TypeWords, junk \in {<<>>, <<"x">>}}

Descriptions == {<<>>, <<"d">>, <<"d", NL, "e">>}

S_ArrayOfObject == ARRAY_PREFIX \o S_Object \o <<">">>

\* general family: lists of up to MaxItems fields with short paths, paths
\* possibly repeated
GeneralFields ==
    {PlainField(p, t) : p \in PathsOver({<<"a">>, <<"b">>}, 2), t \in {S_String, S_Object}}

GeneralLists == SeqsOf(GeneralFields, 0, MaxItems)

\* top-level fields whose names are or look like array indices
IndexNames == {<<"b">>, <<"1">>, <<"2">>, <<"1", "0">>, <<"0", "1">>}
IndexLists == SeqsOf({PlainField(p, S_String) : p \in IndexNames}, 1, MaxItems)

\* two fields with wildcard paths, the first or the second of any leaf shape
PairPaths ==
    {p \in PathsOver({<<"a">>, <<"b">>, STAR}, MaxPairSegs) : Head(p) # "*"}
PairTypes == {S_String, S_Object, S_Any, S_ArrayOfObject}

PairList(p, t, q, shapedFirst) ==
    IF shapedFirst THEN <<PlainField(p, t), PlainField(q, S_String)>>
    ELSE <<PlainField(q, S_String), PlainField(p, t)>>

\* one field with a deep path
DeepPaths == PathsOver({<<"a">>, <<"b">>, STAR}, MaxSegs)
DeepTypes == {S_String, S_Object}

\* one field `a` of any declared type, with or without the request-only keys
TypedField(t, d) == Field(<<"a">>, t, d, FALSE, FALSE, <<>>, <<>>)
AnnotatedTypes == {S_String, S_Object, S_Any}
Notes(c) == {<<>>, <<c>>}

\* names that a properties object can inherit: members of Object.prototype
\* and, once a field named `__proto__` has made a node its prototype, the
\* keys of that node
InheritedNames ==
    {K_proto, K_constructor, K_type, K_properties, K_items, K_jsdoc, K_optional, <<"a">>}
InheritedPaths == PathsOver(InheritedNames, 2)

\* a field named `__proto__` of any shape, and one field more
PrototypeField(t, hasOpt) == Field(K_proto, t, <<>>, hasOpt, FALSE, <<>>, <<>>)

\* the arrangements of distinct members of a pool of fields
Arrangements(pool) ==
    {[i \in 1..Len(s) |-> pool[s[i]]] :
        s \in {s \in SeqsOf(1..Len(pool), 1, Len(pool)) :
                  \A i, j \in 1..Len(s) : i # j => s[i] # s[j]}}

\* fields whose paths run through prototypes and through the keys
\* inherited from them
PrototypePool ==
    <<PlainField(K_proto, S_Object),
      PlainField(Join(<<K_proto, K_proto>>, DOT), S_Object),
      PlainField(Join(<<K_properties, <<"k">>>>, DOT), S_String),
      PlainField(Join(<<K_proto, K_properties>>, DOT), S_String),
      PlainField(Join(<<K_properties, <<"k">>, <<"z">>>>, DOT), S_String)>>

----------------------------------------------------------------------------
(* The program *)

Init ==
    /\ \/ kind = "event" /\ inputItems \in GeneralLists
       \/ kind = "event" /\ inputItems \in IndexLists
       \/ /\ kind = "event"
          /\ \E p \in PairPaths, q \in PairPaths, t \in PairTypes, shapedFirst \in BOOLEAN :
                inputItems = PairList(p, t, q, shapedFirst)
       \/ /\ kind = "event"
          /\ \E p \in DeepPaths, t \in DeepTypes : inputItems = <<PlainField(p, t)>>
       \/ kind \in Kinds /\ inputItems = <<>>
       \/ /\ kind \in Kinds
          /\ \E t \in TypeStrings, d \in Descriptions : inputItems = <<TypedField(t, d)>>
       \/ /\ kind \in Kinds
          /\ \E t \in AnnotatedTypes, d \in Descriptions, o \in BOOLEAN,
                r \in Notes("r"), b \in Notes("b") :
                inputItems = <<Field(<<"a">>, t, d, TRUE, o, r, b)>>
       \/ /\ kind = "event"
          /\ \E p \in InheritedPaths, t \in DeepTypes : inputItems = <<PlainField(p, t)>>
       \/ /\ kind = "event"
          /\ \E t \in PairTypes, hasOpt \in BOOLEAN, q \in InheritedPaths, protoFirst \in BOOLEAN :
                inputItems = IF protoFirst
                             THEN <<PrototypeField(t, hasOpt), PlainField(q, S_String)>>
                             ELSE <<PlainField(q, S_String), PrototypeField(t, hasOpt)>>
       \/ kind = "event" /\ inputItems \in Arrangements(PrototypePool)
    /\ items = <<>>
    /\ idx = 0
    /\ root = ObjectType
    /\ pc = "start"
    /\ err = "none"
    /\ typeText = <<>>
    /\ output = <<>>

\* an entity without fields: `${name}: undefined;` or `${name}: never;`
EmitNoData ==
    /\ pc = "start"
    /\ HasNoFields(inputItems)
    /\ typeText' = NoDataMarker(kind)
    /\ output' = NoDataLine(kind)
    /\ pc' = "done"
    /\ UNCHANGED <<kind, inputItems, items, idx, root, err>>

\* unflattenAndResolveTypes up to its loop: the empty root, the sorted copy
BeginBuild ==
    /\ pc = "start"
    /\ ~HasNoFields(inputItems)
    /\ root' = ObjectType
    /\ items' = SortByDepth(inputItems)
    /\ idx' = 1
    /\ pc' = "build"
    /\ UNCHANGED <<kind, inputItems, err, typeText, output>>

\* one iteration of items.forEach that returns
BuildItem ==
    /\ pc = "build"
    /\ idx <= Len(items)
    /\ LET r == BuildItemResult(root, items[idx])
       IN /\ r.ok
          /\ root' = r.root
    /\ idx' = idx + 1
    /\ UNCHANGED <<kind, inputItems, items, pc, err, typeText, output>>

\* one iteration of items.forEach that throws: nothing is returned and
\* nothing is emitted for the entity; root keeps the containers that the
\* walk created before the throw
BuildThrow ==
    /\ pc = "build"
    /\ idx <= Len(items)
    /\ ~BuildItemResult(root, items[idx]).ok
    /\ err' = BuildItemResult(root, items[idx]).error
    /\ root' = BuildItemResult(root, items[idx]).root
    /\ pc' = "failed"
    /\ UNCHANGED <<kind, inputItems, items, idx, typeText, output>>

\* the tree is returned and stringified into the entity's line
EmitEntity ==
    /\ pc = "build"
    /\ idx > Len(items)
    /\ typeText' = stringifyTypes(root)
    /\ output' = EntityLine(stringifyTypes(root))
    /\ pc' = "done"
    /\ UNCHANGED <<kind, inputItems, items, idx, root, err>>

Next == EmitNoData \/ BeginBuild \/ BuildItem \/ BuildThrow \/ EmitEntity

Spec == Init /\ [][Next]_vars

----------------------------------------------------------------------------
(* Vocabulary of the properties *)

Segments(path) == Split(path, DOT)
ParentOf(path) == SubSeq(Segments(path), 1, Len(Segments(path)) - 1)
LeafOf(path) == Segments(path)[Len(Segments(path))]
PathOf(i) == inputItems[i].valueName
Indices == 1..Len(inputItems)

\* unflattenAndResolveTypes has returned a tree for the entity
TreeReturned == ~HasNoFields(inputItems) /\ (pc = "done" \/ (pc = "build" /\ idx > Len(items)))

\* the properties of a node as the emitter lists them: the own properties
\* of its properties object
Properties(n) ==
    LET p == Member(n, K_properties) IN IF p.js = "object" THEN p.own ELSE <<>>

\* the segments of a path without its wildcards
RECURSIVE DropStars(_)
DropStars(segs) ==
    IF Len(segs) = 0 THEN <<>>
    ELSE (IF Head(segs) = STAR THEN <<>> ELSE <<Head(segs)>>) \o DropStars(Tail(segs))

\* the distinct prefixes of the input paths, wildcards dropped
PrefixNamePaths(list) ==
    UNION {{DropStars(SubSeq(Segments(list[i].valueName), 1, n)) :
              n \in 1..Len(Segments(list[i].valueName))} :
           i \in 1..Len(list)}
    \ {<<>>}

\* the name paths of a tree: a property adds its name, an array adds nothing
RECURSIVE TreeNamePaths(_)
TreeNamePaths(n) ==
    IF IsType(n, S_array) THEN TreeNamePaths(Member(n, K_items))
    ELSE UNION {{<<Properties(n)[i].key>>}
                  \cup {<<Properties(n)[i].key>> \o q : q \in TreeNamePaths(Properties(n)[i].val)} :
                i \in 1..Len(Properties(n))}

\* every object a tree holds: the root, the values of own properties and
\* the prototypes set through `__proto__`
RECURSIVE ObjectsOf(_)
ObjectsOf(o) ==
    {o} \cup UNION {ObjectsOf(o.own[i].val) :
                      i \in {j \in 1..Len(o.own) : o.own[j].val.js = "object"}}
        \cup UNION {ObjectsOf(o.proto[i]) : i \in 1..Len(o.proto)}

\* every node a tree holds, the root included: the objects with a type tag
NodesOf(o) ==
    {n \in ObjectsOf(o) : HasOwn(n.own, K_type) /\ OwnGet(n.own, K_type).js = "string"}

\* the nodes the emitter reaches: through own properties and elements only
RECURSIVE RenderedNodes(_)
RenderedNodes(n) ==
    {n} \cup UNION {RenderedNodes(Properties(n)[i].val) : i \in 1..Len(Properties(n))}
        \cup (IF IsType(n, S_array) THEN RenderedNodes(Member(n, K_items)) ELSE {})

\* C1: when a field list builds, the names and the nesting of the tree are
\* the distinct prefixes of the input paths with the wildcards dropped, and
\* no object of the tree has a property named `*`
C1_ShapeIsPathPrefixes ==
    TreeReturned =>
        /\ TreeNamePaths(root) = PrefixNamePaths(inputItems)
        /\ \A n \in NodesOf(root) : ~HasOwn(Properties(n), STAR)

\* the leaf a descriptor resolves to is a scalar, an opaque value or an array
NonObjectLeaf(field) ==
    getBaseType(field.valueType).ok /\ ~IsType(getBaseType(field.valueType).node, S_object)

\* q is p followed by further segments, none of them a wildcard
ExtendsNonWild(q, p) ==
    /\ Len(Segments(q)) > Len(Segments(p))
    /\ SubSeq(Segments(q), 1, Len(Segments(p))) = Segments(p)
    /\ \A k \in (Len(Segments(p)) + 1)..Len(Segments(q)) : Segments(q)[k] # STAR

\* C2 as stated: a list with a non-object leaf at P and a descriptor below
\* P never yields a tree, whatever the order of the two
C2_LeafThenNestedFails ==
    (\E i, j \in Indices :
        /\ NonObjectLeaf(inputItems[i])
        /\ ExtendsNonWild(PathOf(j), PathOf(i)))
    => ~TreeReturned

\* the node a tree holds at a path, if any: the own properties by name,
\* and for a wildcard the element of the array before the property
RECURSIVE HeldAt(_, _)
HeldAt(n, segs) ==
    IF Len(segs) = 0 THEN <<n>>
    ELSE LET m == IF Head(segs) = STAR /\ IsType(n, S_array) THEN Member(n, K_items) ELSE n
         IN IF m.js = "object" /\ HasOwn(Properties(m), Head(segs))
            THEN HeldAt(OwnGet(Properties(m), Head(segs)), Tail(segs))
            ELSE <<>>

\* the tree holds a node that is not an object at the first k segments of
\* a path, and the segments after them are not wildcards
LeafAbove(tree, segs, k) ==
    /\ \A j \in (k + 1)..Len(segs) : segs[j] # STAR
    /\ HeldAt(tree, SubSeq(segs, 1, k)) # <<>>
    /\ ~IsType(HeldAt(tree, SubSeq(segs, 1, k))[1], S_object)

\* C2 amended: a descriptor that is processed while the tree holds a
\* non-object leaf at a proper prefix of its path fails the build; a tree
\* that is returned holds no non-object node at a proper prefix of a
\* declared path, whatever the order of the input, and none of the
\* non-object nodes that are rendered has properties
C2_NestedBelowLeafFails ==
    /\ (pc = "build" /\ idx <= Len(items)) =>
          ((\E k \in 1..(Len(Segments(items[idx].valueName)) - 1) :
               LeafAbove(root, Segments(items[idx].valueName), k))
           => ~BuildItemResult(root, items[idx]).ok)
    /\ TreeReturned =>
          /\ \A i \in Indices : \A k \in 1..(Len(Segments(PathOf(i))) - 1) :
                ~LeafAbove(root, Segments(PathOf(i)), k)
          /\ \A n \in RenderedNodes(root) : ~IsType(n, S_object) => Properties(n) = <<>>

\* the nested descriptor comes first in the input and is processed after
\* the leaf: the build has failed on it
C2_Witness ==
    /\ inputItems = <<PlainField(<<"a", ".", "a">>, S_String), PlainField(<<"a">>, S_String)>>
    /\ pc = "failed"
    /\ err = "NotObject"
    /\ items[idx].valueName = <<"a", ".", "a">>
    /\ LeafAbove(root, Segments(items[idx].valueName), 1)

\* a path misuses the wildcard: it ends with `*`, starts with `*` (under
\* the root object) or has two `*` in a row (under the element object)
WildcardMisuse(path) ==
    \/ LeafOf(path) = STAR
    \/ Head(Segments(path)) = STAR
    \/ \E k \in 1..(Len(Segments(path)) - 1) :
          Segments(path)[k] = STAR /\ Segments(path)[k + 1] = STAR

\* C3: a list with a path that ends with `*`, or that reaches `*` where the
\* current node is not an array of objects, never yields a tree
C3_WildcardMisuseRejected ==
    (\E i \in Indices : WildcardMisuse(PathOf(i))) => ~TreeReturned

\* the rearrangements of the input that only exchange descriptors of equal
\* depth and different parents
Rearrangements ==
    {q \in [Indices -> Indices] :
        /\ \A i, j \in Indices : i # j => q[i] # q[j]
        /\ \A i, j \in Indices :
              (i < j /\ q[i] > q[j]) =>
                 /\ DotCount(PathOf(q[i])) = DotCount(PathOf(q[j]))
                 /\ ParentOf(PathOf(q[i])) # ParentOf(PathOf(q[j]))}

Rearranged(q) == [i \in Indices |-> inputItems[q[i]]]

\* C4 as stated: a list and its rearrangement render to the same text
C4_RearrangedSameText ==
    (pc = "done" /\ ~HasNoFields(inputItems)) =>
        \A q \in Rearrangements :
            /\ unflattenAndResolveTypes(Rearranged(q)).ok
            /\ stringifyTypes(unflattenAndResolveTypes(Rearranged(q)).root) = typeText

\* a value without the order of its properties: what the emitter lists of
\* an object, as a set
RECURSIVE Unordered(_)
Unordered(v) ==
    IF v.js = "object"
    THEN {<<v.own[i].key, Unordered(v.own[i].val)>> : i \in 1..Len(v.own)}
    ELSE v

\* C4 amended: when a list and its rearrangement both build, the two trees
\* hold the same fields, nesting, types, optionality and documentation,
\* in possibly different orders
C4_RearrangedSameFields ==
    (pc = "done" /\ ~HasNoFields(inputItems)) =>
        \A q \in Rearrangements :
            unflattenAndResolveTypes(Rearranged(q)).ok =>
                Unordered(unflattenAndResolveTypes(Rearranged(q)).root) = Unordered(root)

\* [a.a, b.a] is rendered, and [b.a, a.a] builds the same fields and
\* renders them in another order
C4_Witness ==
    /\ pc = "done"
    /\ inputItems = <<PlainField(<<"a", ".", "a">>, S_String), PlainField(<<"b", ".", "a">>, S_String)>>
    /\ \E q \in Rearrangements :
          /\ q[1] = 2
          /\ unflattenAndResolveTypes(Rearranged(q)).ok
          /\ Unordered(unflattenAndResolveTypes(Rearranged(q)).root) = Unordered(root)
          /\ stringifyTypes(unflattenAndResolveTypes(Rearranged(q)).root) # typeText

\* the names of the fields of the object that holds the leaf of a path, in
\* the order the emitter lists them
RenderedNames(path) ==
    LET w == WalkParts(Walking(root, AtRef(<<>>)), ParentOf(path), 1)
        entries == IF w.ok THEN Properties(ValueAt(w.root, w.cur)) ELSE <<>>
    IN [i \in 1..Len(entries) |-> entries[i].key]

RenderedBefore(a, b, names) ==
    \E x, y \in 1..Len(names) : x < y /\ names[x] = a /\ names[y] = b

\* C5: of two fields with the same parent and different names, the one that
\* comes first in the input is rendered first
C5_InputOrderRendered ==
    pc = "done" =>
        \A i, j \in Indices :
            (i < j /\ ParentOf(PathOf(i)) = ParentOf(PathOf(j))
                   /\ LeafOf(PathOf(i)) # LeafOf(PathOf(j)))
            => RenderedBefore(LeafOf(PathOf(i)), LeafOf(PathOf(j)), RenderedNames(PathOf(i)))

\* the input with the declared type of descriptor i replaced
Retyped(i, t) == [inputItems EXCEPT ![i].valueType = t]

\* descriptor i is an Object leaf declared once, with no descriptor below it
BareObjectLeaf(i) ==
    /\ inputItems[i].valueType = S_Object
    /\ \A k \in Indices \ {i} :
          /\ PathOf(k) # PathOf(i)
          /\ ~(Len(Segments(PathOf(k))) > Len(Segments(PathOf(i)))
               /\ SubSeq(Segments(PathOf(k)), 1, Len(Segments(PathOf(i)))) = Segments(PathOf(i)))

TextOf(list) == stringifyTypes(unflattenAndResolveTypes(list).root)

\* a is b with one occurrence of the text x replaced by the text y
DiffersOnlyBy(a, b, x, y) ==
    \E k \in 0..Len(a) :
        /\ k + Len(x) <= Len(a)
        /\ k + Len(y) <= Len(b)
        /\ SubSeq(a, 1, k) = SubSeq(b, 1, k)
        /\ SubSeq(a, k + 1, k + Len(x)) = x
        /\ SubSeq(b, k + 1, k + Len(y)) = y
        /\ SubSeq(a, k + Len(x) + 1, Len(a)) = SubSeq(b, k + Len(y) + 1, Len(b))

\* a is a part of the text s
Contains(s, a) == \E k \in 0..(Len(s) - Len(a)) : SubSeq(s, k + 1, k + Len(a)) = a

\* C6 as stated: an Object leaf with no nested descriptors renders as the
\* same leaf declared Any does
C6_ObjectRendersAsAny ==
    pc = "done" =>
        \A i \in Indices :
            BareObjectLeaf(i) =>
                /\ unflattenAndResolveTypes(Retyped(i, S_Any)).ok
                /\ TextOf(Retyped(i, S_Any)) = typeText

\* the lines the emitter writes for a property `name` that holds node
FieldLines(name, node) == PropertyLines(<<Entry(name, node)>>)

\* the line `name: text;` or `name?: text;` of a property
FieldLine(entry, text) ==
    entry.key \o Separator(entry.val) \o <<" ">> \o text \o <<";">>

\* C6 amended: the node resolved for a leaf declared Object renders as
\* JsonObject where the node resolved for the same leaf declared Any renders
\* as JsonValue, and the lines of the two fields are the same everywhere
\* else; in the text of a built tree every property that holds an object
\* without properties is written with JsonObject, and every property that
\* holds a JSON value with JsonValue
C6_ObjectRendersAsJsonObject ==
    /\ \A i \in Indices :
          inputItems[i].valueType = S_Object =>
              LET asObject == resolveType(inputItems[i]).node
                  asAny == resolveType(Retyped(i, S_Any)[i]).node
                  objectLines == FieldLines(LeafOf(PathOf(i)), asObject)
                  anyLines == FieldLines(LeafOf(PathOf(i)), asAny)
              IN /\ stringifyTypes(asObject) = S_JsonObject
                 /\ stringifyTypes(asAny) = S_JsonValue
                 /\ Len(objectLines) = Len(anyLines)
                 /\ \A l \in 1..(Len(objectLines) - 1) : objectLines[l] = anyLines[l]
                 /\ DiffersOnlyBy(objectLines[Len(objectLines)], anyLines[Len(anyLines)],
                                  S_JsonObject, S_JsonValue)
    /\ (pc = "done" /\ ~HasNoFields(inputItems)) =>
          \A n \in RenderedNodes(root) : \A e \in 1..Len(Properties(n)) :
              /\ (IsType(Properties(n)[e].val, S_object) /\ Properties(Properties(n)[e].val) = <<>>)
                 => Contains(typeText, FieldLine(Properties(n)[e], S_JsonObject))
              /\ IsType(Properties(n)[e].val, S_jsonvalue)
                 => Contains(typeText, FieldLine(Properties(n)[e], S_JsonValue))

C6_Witness ==
    /\ pc = "done"
    /\ inputItems = <<Field(<<"a">>, S_Object, <<"d">>, TRUE, TRUE, <<>>, <<>>)>>
    /\ Contains(typeText, <<"a", "?", ":", " ">> \o S_JsonObject \o <<";">>)
    /\ stringifyTypes(resolveType(Retyped(1, S_Any)[1]).node) = S_JsonValue

\* the documentation text of a node
JsdocOf(n) ==
    LET d == Member(n, K_jsdoc) IN IF d.js = "string" THEN d.str ELSE <<>>

\* C7: no node derived from a response or event descriptor is optional or
\* documents a restriction or a default value, and no such field is
\* rendered with `?:`, whatever keys the raw descriptor has
C7_OptionalityIsolation ==
    kind \in {"event", "response"} =>
        /\ \A n \in NodesOf(root) :
              /\ ~Truthy(Member(n, K_optional))
              /\ ~Contains(JsdocOf(n), Tail(S_restrictions))
              /\ ~Contains(JsdocOf(n), Tail(S_defaultValue))
        /\ ~Contains(output, <<"?", ":">>)

\* C8: an entity without fields gets the marker of its kind, the builder
\* and the emitter left out; and no entity gets JsonObject as its type
C8_NoDataMarker ==
    pc = "done" =>
        /\ HasNoFields(inputItems) =>
              /\ typeText = (IF kind = "request" THEN S_never ELSE S_undefined)
              /\ Contains(output, typeText)
              /\ idx = 0 /\ items = <<>> /\ root = ObjectType
        /\ typeText # S_JsonObject
        /\ output # EntityName \o <<":", " ">> \o S_JsonObject \o <<";">>

\* C9: in every tree returned, the element of an array is a scalar or an
\* object
C9_ArrayElements ==
    TreeReturned =>
        \A n \in NodesOf(root) :
            IsType(n, S_array) =>
                \E t \in {S_string, S_number, S_boolean, S_object} : IsType(Member(n, K_items), t)

\* the declared types of the vocabulary: the five words, and Array<T> for T
\* in the vocabulary
RECURSIVE InVocabulary(_)
InVocabulary(t) ==
    \/ t \in {S_Boolean, S_String, S_Number, S_Object, S_Any}
    \/ /\ StartsWith(t, ARRAY_PREFIX)
       /\ t[Len(t)] = ">"
       /\ InVocabulary(SubSeq(t, Len(ARRAY_PREFIX) + 1, Len(t) - 1))

\* C10: a declared type outside the vocabulary ends getBaseType with the
\* unknown-type error: no node is returned for it and the recursion ends
C10_UnknownTypeFails ==
    \A i \in 1..Len(items) :
        ~InVocabulary(items[i].valueType) =>
            /\ idx <= i
            /\ err # "RangeError"

====
